---- MODULE Spec2Model ----
(***************************************************************************)
(* A model of etcd.py (PyEtcdConf): get_service, get_conf, _build_tuple    *)
(* and info, with the module-level cache _cached_result.                   *)
(*                                                                         *)
(* Python values are tagged records, so that values of different Python    *)
(* types can be compared: None, Num(n), Str(s), Dict(f).  A dict is a      *)
(* function from its keys to its values.  A call's outcome is Ret(v) or    *)
(* Raise(e), e the name of the exception class.                            *)
(*                                                                         *)
(* A string that the code splits on ':' (a service leaf's value) is a      *)
(* sequence of one-character strings.  An etcd key, which the code only    *)
(* splits on '/', is the sequence of its path segments.                    *)
(***************************************************************************)
EXTENDS Integers, Sequences, FiniteSets, TLC

VARIABLES
    svcResp, svcAlias, svcOut,      \* get_service: the store's response, the alias, the outcome
    confResp, confAlias, confOut,   \* get_conf: the store's response, the alias, the outcome
    store,                          \* the etcd store: what each GET answers now
    _cached_result,                          \* _cached_result
    call, outcome, nfetch, ncalls,  \* the last info call, its outcome, its store calls; calls so far
    procs                           \* concurrent info calls: each thread's position and locals

vars == <<svcResp, svcAlias, svcOut, confResp, confAlias, confOut,
          store, _cached_result, call, outcome, nfetch, ncalls, procs>>

svcVars == <<svcResp, svcAlias, svcOut>>
confVars == <<confResp, confAlias, confOut>>
infoVars == <<store, _cached_result, call, outcome, nfetch, ncalls>>

-----------------------------------------------------------------------------
(* Bounds of the model. *)

\* the longest children list of a service directory
MaxNodes == 2
\* the longest children list of a configuration directory
MaxKids == 2
\* the longest request list of one info call
MaxReqs == 2
\* the number of info calls in one behaviour of the cache specification
MaxCalls == 3
\* the number of threads that call info concurrently
NProcs == 2

-----------------------------------------------------------------------------
(* Python values and outcomes. *)

None == [t |-> "None"]
Num(n) == [t |-> "int", v |-> n]
Str(s) == [t |-> "str", v |-> s]
Dict(f) == [t |-> "dict", v |-> f]

Ret(v) == [tag |-> "return", val |-> v]
Raise(e) == [tag |-> "raise", exc |-> e]
Pending == [tag |-> "pending"]

EmptyMap == [k \in {} |-> None]

\* dict.update: the keys of g are added to f, a key of both takes g's value
Update(f, g) == [k \in DOMAIN f \cup DOMAIN g |-> IF k \in DOMAIN g THEN g[k] ELSE f[k]]

\* bool(v), as filter(lambda v: v, ...) and `if cache_key` evaluate it
Truthy(v) ==
    CASE v.t = "None" -> FALSE
      [] v.t = "str" -> v.v # ""
      [] v.t = "dict" -> DOMAIN v.v # {}
      [] v.t = "int" -> v.v # 0
      [] OTHER -> TRUE

Last(s) == s[Len(s)]

-----------------------------------------------------------------------------
(* str.split(':') and int(), on sequences of characters. *)

Digits == {"0", "1", "2", "3", "4", "5", "6", "7", "8", "9"}

DigitVal(c) ==
    CASE c = "0" -> 0 [] c = "1" -> 1 [] c = "2" -> 2 [] c = "3" -> 3 [] c = "4" -> 4
      [] c = "5" -> 5 [] c = "6" -> 6 [] c = "7" -> 7 [] c = "8" -> 8 [] c = "9" -> 9

\* s.split(sep): the pieces of s between the occurrences of sep (at least one piece)
RECURSIVE SplitFrom(_, _, _, _)
SplitFrom(s, sep, i, cur) ==
    IF i > Len(s) THEN <<cur>>
    ELSE IF s[i] = sep THEN <<cur>> \o SplitFrom(s, sep, i + 1, <<>>)
    ELSE SplitFrom(s, sep, i + 1, Append(cur, s[i]))

Split(s, sep) == SplitFrom(s, sep, 1, <<>>)

AllDigits(s) == Len(s) > 0 /\ \A i \in 1..Len(s) : s[i] \in Digits

\* int(s) raises ValueError unless s is an optional sign and at least one digit
IsInt(s) ==
    IF Len(s) > 0 /\ s[1] \in {"+", "-"} THEN AllDigits(Tail(s)) ELSE AllDigits(s)

RECURSIVE DigitsVal(_, _)
DigitsVal(s, acc) == IF s = <<>> THEN acc ELSE DigitsVal(Tail(s), 10 * acc + DigitVal(s[1]))

ToInt(s) ==
    IF s[1] = "-" THEN 0 - DigitsVal(Tail(s), 0)
    ELSE IF s[1] = "+" THEN DigitsVal(Tail(s), 0)
    ELSE DigitsVal(s, 0)

-----------------------------------------------------------------------------
(* The store's answer to one GET.  transport is "ok" (a JSON body was      *)
(* decoded), "ConnectionError" (requests.get raises) or "InvalidJSON"      *)
(* (.json() raises ValueError).  body is the decoded JSON object.          *)

Response(body) == [transport |-> "ok", body |-> body]
Unreachable == [transport |-> "ConnectionError", body |-> EmptyMap]
InvalidJSON == [transport |-> "InvalidJSON", body |-> EmptyMap]
\* etcd's answer for a missing key: an error object with no "node"
NotFound == Response([errorCode |-> 100])

Leaf(k, v) == [key |-> k, value |-> v]
DirNode(k, ns) == [key |-> k, dir |-> TRUE, nodes |-> ns]
EmptyDir(k) == [key |-> k, dir |-> TRUE]
BareNode(k) == [key |-> k]

-----------------------------------------------------------------------------------------------------------------------------------------------------
(* get_service.  An operator's intermediate value is handed on as an        *)
(* argument of the operator that continues the computation.                 *)

\* lines 42-45, value the pieces of entry['value'].split(':')
ServiceEntryOf(key, value) ==
    IF Len(value) < 2 THEN Raise("IndexError")
    ELSE IF ~IsInt(value[2]) THEN Raise("ValueError")
    ELSE Ret(<<Last(key), Dict([host |-> Str(value[1]), port |-> Num(ToInt(value[2]))])>>)

\* get_service_entry(entry): (replica id, {host, port}) or the exception raised
get_service_entry(entry) ==
    IF "key" \notin DOMAIN entry THEN Raise("KeyError")
    ELSE IF "value" \notin DOMAIN entry THEN Raise("KeyError")
    ELSE ServiceEntryOf(entry.key, Split(entry.value, ":"))

\* dict(pairs): a later pair with the same key wins
RECURSIVE DictOfPairs(_)
DictOfPairs(pairs) ==
    IF pairs = <<>> THEN EmptyMap
    ELSE Update(DictOfPairs(SubSeq(pairs, 1, Len(pairs) - 1)),
                (pairs[Len(pairs)][1] :> pairs[Len(pairs)][2]))

\* map(get_service_entry, nodes) stops at the first entry that raises
FirstRaise(entries) ==
    entries[CHOOSE i \in 1..Len(entries) :
                /\ entries[i].tag = "raise"
                /\ \A j \in 1..(i - 1) : entries[j].tag # "raise"]

\* line 49, entries the outcomes of get_service_entry on the nodes
ServiceDict(alias, entries) ==
    IF \E i \in 1..Len(entries) : entries[i].tag = "raise" THEN FirstRaise(entries)
    ELSE Ret(Dict((alias :> Dict(DictOfPairs([i \in 1..Len(entries) |-> entries[i].val])))))

\* lines 48-49, the body of the try block: its value or the exception raised
ServiceTry(resp, alias) ==
    IF resp.transport = "ConnectionError" THEN Raise("ConnectionError")
    ELSE IF resp.transport = "InvalidJSON" THEN Raise("ValueError")
    ELSE IF "node" \notin DOMAIN resp.body THEN Raise("KeyError")
    ELSE IF "nodes" \notin DOMAIN resp.body.node THEN Raise("KeyError")
    ELSE ServiceDict(alias, [i \in 1..Len(resp.body.node.nodes) |->
                                 get_service_entry(resp.body.node.nodes[i])])

\* the exceptions the except clause names
ServiceCaught == {"KeyError", "IndexError", "ValueError"}

\* an except clause that keeps the well-formed children of a listing
ServiceExceptPartial(resp, alias, r) ==
    IF r.tag = "raise" /\ r.exc \in ServiceCaught
    THEN IF resp.transport = "ok" /\ "node" \in DOMAIN resp.body /\ "nodes" \in DOMAIN resp.body.node
         THEN ServiceDict(alias, SelectSeq([i \in 1..Len(resp.body.node.nodes) |->
                                               get_service_entry(resp.body.node.nodes[i])],
                                           LAMBDA e : e.tag = "return"))
         ELSE Ret(None)
    ELSE r

\* lines 50-51, r the outcome of the try block
ServiceExcept(resp, alias, r) ==
    IF r.tag = "raise" /\ r.exc \in ServiceCaught THEN Ret(None) ELSE r

get_service(resp, alias) == ServiceExcept(resp, alias, ServiceTry(resp, alias))

-----
(* Inputs of get_service. *)

ReplicaIds == <<"r1", "r2", "r3", "r4">>

\* leaf values: "h:8", "g:80", "h:8:9", "h:-1", and the malformed "h", "h:x", "h:", ""
GoodValues == {<<"h", ":", "8">>, <<"g", ":", "8", "0">>, <<"h", ":", "8", ":", "9">>,
               <<"h", ":", "-", "1">>}
BadValues == {<<"h">>, <<"h", ":", "x">>, <<"h", ":">>, <<>>}
SampleValues == GoodValues \cup BadValues

\* the i-th child of a service directory: etcd gives the children of one
\* directory distinct keys
ServiceEntries(i) ==
    {Leaf(<<"backends", "svc", ReplicaIds[i]>>, v) : v \in SampleValues}
        \cup {EmptyDir(<<"backends", "svc", ReplicaIds[i]>>)}

ServiceListings ==
    UNION {{ns \in [1..n -> UNION {ServiceEntries(i) : i \in 1..n}] :
                \A i \in 1..n : ns[i] \in ServiceEntries(i)} : n \in 0..MaxNodes}

ServiceResponses ==
    {Unreachable, InvalidJSON, NotFound,
     Response([node |-> EmptyDir(<<"backends", "svc">>)]),
     Response([node |-> Leaf(<<"backends", "svc">>, <<"h", ":", "8">>)])}
        \cup {Response([node |-> DirNode(<<"backends", "svc">>, ns)]) : ns \in ServiceListings}

-----------------------------------------------------------------------------------------------------------------------------------------------------
(* get_conf *)

RECURSIVE build_conf(_, _)
RECURSIVE BuildKids(_, _, _)
RECURSIVE ConfUpdate(_, _, _, _)

\* line 76, m.update(r): r is what build_conf gave for the i-th child
ConfUpdate(nodes, i, m, r) ==
    IF r.tag = "raise" THEN r
    ELSE IF r.val.t # "dict" THEN Raise("TypeError")
    ELSE BuildKids(nodes, i + 1, Update(m, r.val.v))

\* lines 74-76, the loop from the i-th child on, m the mapping so far
BuildKids(nodes, i, m) ==
    IF i > Len(nodes) THEN Ret(m)
    ELSE ConfUpdate(nodes, i, m, build_conf(nodes[i], None))

\* line 77, m the outcome of the loop
ConfDir(current_key, m) ==
    IF m.tag = "raise" THEN m ELSE Ret(Dict((current_key :> Dict(m.val))))

\* lines 73-81
ConfNode(node, current_key) ==
    IF "dir" \in DOMAIN node /\ node.dir /\ "nodes" \in DOMAIN node /\ node.nodes # <<>>
    THEN ConfDir(current_key, BuildKids(node.nodes, 1, EmptyMap))
    ELSE IF "value" \in DOMAIN node THEN Ret(Dict((current_key :> Str(node.value))))
    ELSE Ret(None)

\* node_alias is None or Str(alias)
build_conf(node, node_alias) ==
    IF Truthy(node_alias) THEN ConfNode(node, node_alias.v)
    ELSE IF "key" \notin DOMAIN node THEN Raise("KeyError")
    ELSE ConfNode(node, Last(node.key))

get_conf(resp, alias) ==
    IF resp.transport = "ConnectionError" THEN Raise("ConnectionError")
    ELSE IF resp.transport = "InvalidJSON" THEN Raise("ValueError")
    ELSE IF "node" \notin DOMAIN resp.body THEN Ret(None)
    ELSE build_conf(resp.body.node, Str(alias))

-----
(* Inputs of get_conf: the trees of at most MaxDepth levels below the root, *)
(* a directory holding at most MaxKids children with distinct keys.         *)

\* the levels of a configuration tree below its root
MaxDepth == 2

KeyNames == <<"a", "b", "c", "d">>

RECURSIVE Trees(_, _)
Trees(path, depth) ==
    LET flat == {Leaf(path, "v"), EmptyDir(path), DirNode(path, <<>>), BareNode(path)}
    IN  IF depth = 0 THEN flat
        ELSE flat \cup UNION {
                 {DirNode(path, ns) :
                     ns \in {f \in [1..n -> UNION {Trees(Append(path, KeyNames[i]), depth - 1) : i \in 1..n}] :
                                \A i \in 1..n : f[i] \in Trees(Append(path, KeyNames[i]), depth - 1)}}
                 : n \in 1..MaxKids}

ConfResponses(depth) ==
    {Unreachable, InvalidJSON, NotFound}
        \cup {Response([node |-> t]) : t \in Trees(<<"project-conf", "app">>, depth)}

-----------------------------------------------------------------------------
(* The resolvers as state machines: Init draws the store's answer and the   *)
(* alias, the one action applies the resolver to them.                      *)

InfoIdle ==
    /\ store = <<>>
    /\ _cached_result = EmptyMap
    /\ call = <<>>
    /\ outcome = Pending
    /\ nfetch = 0
    /\ ncalls = 0

ServiceIdle == svcResp = NotFound /\ svcAlias = "x" /\ svcOut = Pending
ConfIdle == confResp = NotFound /\ confAlias = "x" /\ confOut = Pending
ProcsIdle == procs = <<>>

InitService ==
    /\ svcResp \in ServiceResponses
    /\ svcAlias \in {"x", "y"}
    /\ svcOut = Pending
    /\ ConfIdle /\ InfoIdle /\ ProcsIdle

ResolveService ==
    /\ svcOut = Pending
    /\ svcOut' = get_service(svcResp, svcAlias)
    /\ UNCHANGED <<svcResp, svcAlias, confVars, infoVars, procs>>

SpecService == InitService /\ [][ResolveService]_vars

InitConf ==
    /\ confResp \in ConfResponses(MaxDepth)
    /\ confAlias \in {"x", "y"}
    /\ confOut = Pending
    /\ ServiceIdle /\ InfoIdle /\ ProcsIdle

ResolveConf ==
    /\ confOut = Pending
    /\ confOut' = get_conf(confResp, confAlias)
    /\ UNCHANGED <<confResp, confAlias, svcVars, infoVars, procs>>

SpecConf == InitConf /\ [][ResolveConf]_vars

-----------------------------------------------------------------------------
(* _build_tuple and info *)

PyTuple(s) == [t |-> "tuple", v |-> s]
PyList(s) == [t |-> "list", v |-> s]

\* isinstance(val, tuple) and len(val) == 2, else isinstance(val, basestring)
_build_tuple(val) ==
    IF val.t = "tuple" /\ Len(val.v) = 2 THEN Ret(val.v)
    ELSE IF val.t = "str" THEN Ret(<<val, val>>)
    ELSE Raise("ValueError")

\* requests.get(url) for the url get_service (kind "backends") or get_conf
\* (kind "project-conf") builds from the name
Fetch(st, kind, name) ==
    IF name \in DOMAIN st[kind] THEN st[kind][name] ELSE NotFound

Resolver(kind, resp, alias) ==
    IF kind = "backends" THEN get_service(resp, alias) ELSE get_conf(resp, alias)

RECURSIVE ResolveAll(_, _, _, _, _, _)

\* r the outcome of the i-th entry's resolver
ResolveNext(st, kind, reqs, i, acc, n, r) ==
    IF r.tag = "raise" THEN [tag |-> "raise", exc |-> r.exc, n |-> n + 1]
    ELSE ResolveAll(st, kind, reqs, i + 1, Append(acc, r.val), n + 1)

\* t the outcome of _build_tuple on the i-th entry
ResolveEntry(st, kind, reqs, i, acc, n, t) ==
    IF t.tag = "raise" THEN [tag |-> "raise", exc |-> t.exc, n |-> n]
    ELSE ResolveNext(st, kind, reqs, i, acc, n,
                     Resolver(kind, Fetch(st, kind, t.val[1].v), t.val[2].v))

\* [getter(etcd_url, *_build_tuple(entry)) for entry in reqs], from the i-th
\* entry on: the list of the results, or the first exception raised; n counts
\* the store calls made
ResolveAll(st, kind, reqs, i, acc, n) ==
    IF i > Len(reqs) THEN [tag |-> "return", val |-> acc, n |-> n]
    ELSE ResolveEntry(st, kind, reqs, i, acc, n, _build_tuple(reqs[i]))

\* merge_dicts with precedence to the earlier dicts
RECURSIVE MergeFirstWins(_)
MergeFirstWins(dicts) ==
    IF dicts = <<>> THEN EmptyMap
    ELSE Update(MergeFirstWins(Tail(dicts)), dicts[1].v)

\* merge_dicts(*dict_args): result_map.update(dictionary) for each, in order
RECURSIVE merge_dicts(_)
merge_dicts(dicts) ==
    IF dicts = <<>> THEN EmptyMap
    ELSE Update(merge_dicts(SubSeq(dicts, 1, Len(dicts) - 1)), dicts[Len(dicts)].v)

\* filter that keeps a None as an empty mapping under no key
KeepAll(results) == [i \in 1..Len(results) |-> IF results[i].t = "dict" THEN results[i] ELSE Dict(("absent" :> None))]

\* filter(lambda v: v, results)
Present(results) == SelectSeq(results, Truthy)

\* line 132, s and f the resolved service and configuration lists
InfoMerge(s, f) ==
    IF f.tag = "raise" THEN [out |-> Raise(f.exc), n |-> f.n]
    ELSE [out |-> Ret(Dict(merge_dicts(<<Dict(("services" :> Dict(merge_dicts(Present(s.val))))),
                                         Dict(merge_dicts(Present(f.val)))>>))),
          n |-> f.n]

\* line 131
InfoConf(st, c, s) ==
    IF s.tag = "raise" THEN [out |-> Raise(s.exc), n |-> s.n]
    ELSE InfoMerge(s, ResolveAll(st, "project-conf", c.creqs, 1, <<>>, s.n))

\* lines 129-132: the bundle, or the exception raised on the way; n counts
\* the store calls
InfoBody(st, c) == InfoConf(st, c, ResolveAll(st, "backends", c.sreqs, 1, <<>>, 0))

\* a cache check with the `not` of force_refresh dropped
CacheHitInverted(ch, c) == c.force /\ Truthy(c.key) /\ c.key.v \in DOMAIN ch

\* line 116
CacheHit(ch, c) == ~c.force /\ Truthy(c.key) /\ c.key.v \in DOMAIN ch

\* a cache write that keeps an entry already there
CacheStoreOnce(ch, key, result) ==
    IF Truthy(key) /\ key.v \notin DOMAIN ch THEN Update(ch, (key.v :> result)) ELSE ch

\* a cache write that drops the other entries
CacheStoreAlone(ch, key, result) ==
    IF Truthy(key) THEN (key.v :> result) ELSE ch

\* a cache write that updates the entry already there in place
CacheStoreMerged(ch, key, result) ==
    IF Truthy(key) /\ key.v \in DOMAIN ch
    THEN Update(ch, (key.v :> Dict(Update(ch[key.v].v, result.v))))
    ELSE IF Truthy(key) THEN Update(ch, (key.v :> result))
    ELSE ch

\* lines 134-135
CacheStore(ch, key, result) ==
    IF Truthy(key) THEN Update(ch, (key.v :> result)) ELSE ch

\* lines 116-137 as a function of the cache and the store: the outcome, the
\* store calls made and the cache left behind
InfoCompute(ch, c, r) ==
    [out |-> r.out, n |-> r.n,
     cached |-> IF r.out.tag = "return" THEN CacheStore(ch, c.key, r.out.val) ELSE ch]

InfoResult(ch, st, c) ==
    IF CacheHit(ch, c) THEN [out |-> Ret(ch[c.key.v]), n |-> 0, cached |-> ch]
    ELSE InfoCompute(ch, c, InfoBody(st, c))

InfoApply(c, r) ==
    /\ outcome' = r.out
    /\ nfetch' = r.n
    /\ _cached_result' = r.cached
    /\ call' = c
    /\ ncalls' = ncalls + 1
    /\ UNCHANGED <<store, svcVars, confVars, procs>>

\* one call info(etcd_url, c.sreqs, c.creqs, c.key, c.force), start to end
info(c) == InfoApply(c, InfoResult(_cached_result, store, c))

-----
(* The store's contents and the requests of the info specifications. *)

\* backends/svcA with the replicas r1 = "h:8" and r2 = "g:80"
SvcGood1 ==
    Response([node |-> DirNode(<<"backends", "svcA">>,
        <<Leaf(<<"backends", "svcA", "r1">>, <<"h", ":", "8">>),
          Leaf(<<"backends", "svcA", "r2">>, <<"g", ":", "8", "0">>)>>)])
\* backends/svcA with a replica whose port is no integer
SvcBadPort ==
    Response([node |-> DirNode(<<"backends", "svcA">>,
        <<Leaf(<<"backends", "svcA", "r1">>, <<"h", ":", "8">>),
          Leaf(<<"backends", "svcA", "r2">>, <<"h", ":", "x">>)>>)])
\* backends/svcB with the replica r1 = "g:80"
SvcGood2 ==
    Response([node |-> DirNode(<<"backends", "svcB">>,
        <<Leaf(<<"backends", "svcB", "r1">>, <<"g", ":", "8", "0">>)>>)])

\* project-conf/app = {a: "v", b: {c: "v"}}
ConfTree1 ==
    Response([node |-> DirNode(<<"project-conf", "app">>,
        <<Leaf(<<"project-conf", "app", "a">>, "v"),
          DirNode(<<"project-conf", "app", "b">>, <<Leaf(<<"project-conf", "app", "b", "c">>, "v")>>)>>)])
\* project-conf/app = {a: "v", b: {}}
ConfEmptyChild ==
    Response([node |-> DirNode(<<"project-conf", "app">>,
        <<Leaf(<<"project-conf", "app", "a">>, "v"),
          EmptyDir(<<"project-conf", "app", "b">>)>>)])
\* project-conf/lib = "w"
ConfLeaf == Response([node |-> Leaf(<<"project-conf", "lib">>, "w")])

Stores ==
    {("backends" :> [svcA |-> a, svcB |-> b]) @@ ("project-conf" :> [app |-> p, lib |-> ConfLeaf]) :
        a \in {SvcGood1, SvcBadPort, Unreachable}, b \in {SvcGood2, NotFound},
        p \in {ConfTree1, ConfEmptyChild, InvalidJSON, NotFound}}

SeqsUpTo(S, n) == UNION {[1..k -> S] : k \in 0..n}

\* request entries: a bare name, (name, alias) pairs, and malformed entries
ServiceEntryForms ==
    {Str("svcA"), PyTuple(<<Str("svcA"), Str("x")>>), PyTuple(<<Str("svcB"), Str("x")>>), Num(42)}
ConfEntryForms ==
    {Str("app"), PyTuple(<<Str("lib"), Str("app")>>), PyTuple(<<Str("lib"), Str("services")>>),
     PyList(<<Str("app"), Str("c")>>)}

\* cache_key: not given, the empty string, or a name
CacheKeys == {None, Str(""), Str("k1"), Str("k2")}

NoCall == [sreqs |-> <<>>, creqs |-> <<>>, key |-> None, force |-> FALSE]

MergeCalls ==
    [sreqs : SeqsUpTo(ServiceEntryForms, MaxReqs), creqs : SeqsUpTo(ConfEntryForms, MaxReqs),
     key : {None}, force : {FALSE}]

CacheCalls ==
    [sreqs : {<<>>, <<Str("svcA")>>, <<Str("svcA"), Num(42)>>},
     creqs : {<<>>, <<Str("app")>>},
     key : CacheKeys, force : BOOLEAN]

CacheStores == {s \in Stores : s["backends"].svcB = SvcGood2
                               /\ s["project-conf"].app \in {ConfTree1, ConfEmptyChild}}

-----------------------------------------------------------------------------
(* One info call on drawn inputs: Init draws the store and the arguments.  *)

InitMerge ==
    /\ store \in Stores
    /\ call \in MergeCalls
    /\ _cached_result = EmptyMap
    /\ outcome = Pending
    /\ nfetch = 0
    /\ ncalls = 0
    /\ ServiceIdle /\ ConfIdle /\ ProcsIdle

MergeCall == ncalls = 0 /\ info(call)

SpecMerge == InitMerge /\ [][MergeCall]_vars

-----------------------------------------------------------------------------
(* A sequence of info calls on one process, the store changing in between. *)

InitCache ==
    /\ store \in CacheStores
    /\ _cached_result = EmptyMap
    /\ call = NoCall
    /\ outcome = Pending
    /\ nfetch = 0
    /\ ncalls = 0
    /\ ServiceIdle /\ ConfIdle /\ ProcsIdle

CallInfo == \E c \in CacheCalls : ncalls < MaxCalls /\ info(c)

\* the store is written by others: any content may replace the present one
StoreChange ==
    /\ \E s \in CacheStores : s # store /\ store' = s
    /\ UNCHANGED <<_cached_result, call, outcome, nfetch, ncalls, svcVars, confVars, procs>>

NextCache == CallInfo \/ StoreChange

SpecCache == InitCache /\ [][NextCache]_vars

-----------------------------------------------------------------------------------------------------------------------------------------------------------------------------------------------------------------------------
(* Concurrent info calls, one per thread.  A thread's steps are the places  *)
(* where it reads or writes what the threads share: the cache check at the  *)
(* call's start (line 116), one store call per request entry (lines         *)
(* 130-131), and the cache write with the return (lines 134-137).  The      *)
(* merges of lines 129-132 work on the thread's locals and belong to the    *)
(* step that precedes them.                                                 *)

Procs == 1..NProcs

ConcCalls ==
    [sreqs : {<<Str("svcA")>>},
     creqs : {<<Str("app")>>, <<PyTuple(<<Str("lib"), Str("l")>>)>>},
     key : {Str("k1")}, force : BOOLEAN]

ConcStores == {s \in Stores : /\ s["backends"].svcB = SvcGood2
                              /\ s["backends"].svcA \in {SvcGood1, Unreachable}
                              /\ s["project-conf"].app \in {ConfTree1, NotFound}}

IdleProc ==
    [pc |-> "idle", c |-> NoCall, i |-> 1, acc |-> <<>>, svc |-> <<>>, conf |-> <<>>,
     result |-> None, out |-> Pending]

InitConc ==
    /\ store \in ConcStores
    /\ _cached_result = EmptyMap
    /\ procs = [p \in Procs |-> IdleProc]
    /\ call = NoCall
    /\ outcome = Pending
    /\ nfetch = 0
    /\ ncalls = 0
    /\ ServiceIdle /\ ConfIdle

ProcVars == <<call, outcome, nfetch, ncalls, svcVars, confVars>>

\* lines 129-130: the service list is resolved, the configuration list is next
ServicesDone(l) ==
    IF l.pc = "services" /\ l.i > Len(l.c.sreqs)
    THEN [l EXCEPT !.pc = "confs", !.svc = l.acc, !.acc = <<>>, !.i = 1]
    ELSE l

\* lines 131-132: the configuration list is resolved, the bundle is merged
ConfsDone(l) ==
    IF l.pc = "confs" /\ l.i > Len(l.c.creqs)
    THEN [l EXCEPT !.pc = "store", !.conf = l.acc, !.acc = <<>>,
                   !.result = Dict(merge_dicts(
                       <<Dict(("services" :> Dict(merge_dicts(Present(l.svc))))),
                         Dict(merge_dicts(Present(l.acc)))>>))]
    ELSE l

\* the thread's local computation up to its next store call or cache write
Local(l) == ConfsDone(ServicesDone(l))

\* lines 116-117, c the arguments of the call
Check(p) ==
    /\ procs[p].pc = "idle"
    /\ \E c \in ConcCalls :
           procs' = [procs EXCEPT ![p] =
                        IF CacheHit(_cached_result, c)
                        THEN [@ EXCEPT !.pc = "done", !.c = c, !.out = Ret(_cached_result[c.key.v])]
                        ELSE Local([@ EXCEPT !.pc = "services", !.c = c])]
    /\ UNCHANGED <<store, _cached_result, ProcVars>>

\* r the outcome of the resolver on the entry
AfterFetch(l, r) ==
    IF r.tag = "raise" THEN [l EXCEPT !.pc = "done", !.out = r]
    ELSE [l EXCEPT !.i = l.i + 1, !.acc = Append(l.acc, r.val)]

\* t the outcome of _build_tuple on the entry
AfterTuple(l, st, kind, t) ==
    IF t.tag = "raise" THEN [l EXCEPT !.pc = "done", !.out = Raise(t.exc)]
    ELSE AfterFetch(l, Resolver(kind, Fetch(st, kind, t.val[1].v), t.val[2].v))

\* line 130, one entry of service_names
FetchService(p) ==
    /\ procs[p].pc = "services"
    /\ procs' = [procs EXCEPT ![p] =
                    Local(AfterTuple(procs[p], store, "backends",
                                     _build_tuple(procs[p].c.sreqs[procs[p].i])))]
    /\ UNCHANGED <<store, _cached_result, ProcVars>>

\* line 131, one entry of conf_names
FetchConf(p) ==
    /\ procs[p].pc = "confs"
    /\ procs' = [procs EXCEPT ![p] =
                    Local(AfterTuple(procs[p], store, "project-conf",
                                     _build_tuple(procs[p].c.creqs[procs[p].i])))]
    /\ UNCHANGED <<store, _cached_result, ProcVars>>

\* lines 134-137
Write(p) ==
    /\ procs[p].pc = "store"
    /\ _cached_result' = CacheStore(_cached_result, procs[p].c.key, procs[p].result)
    /\ procs' = [procs EXCEPT ![p] = [@ EXCEPT !.pc = "done", !.out = Ret(procs[p].result)]]
    /\ UNCHANGED <<store, ProcVars>>

ConcStoreChange ==
    /\ \E s \in ConcStores : s # store /\ store' = s
    /\ UNCHANGED <<_cached_result, procs, ProcVars>>

Step(p) ==
    \/ Check(p)
    \/ FetchService(p)
    \/ FetchConf(p)
    \/ Write(p)

NextConc == (\E p \in Procs : Step(p)) \/ ConcStoreChange

SpecConc == InitConc /\ [][NextConc]_vars

-----
(* Properties of get_service, under SpecService. *)

HasColon(v) == \E i \in 1..Len(v) : v[i] = ":"
FirstColon(v) == CHOOSE i \in 1..Len(v) : v[i] = ":" /\ \A j \in 1..(i - 1) : v[j] # ":"
HostOf(v) == SubSeq(v, 1, FirstColon(v) - 1)
AfterColon(v) == SubSeq(v, FirstColon(v) + 1, Len(v))
SecondSegment(v) ==
    IF HasColon(AfterColon(v)) THEN SubSeq(AfterColon(v), 1, FirstColon(AfterColon(v)) - 1)
    ELSE AfterColon(v)

WellFormedLeaf(n) ==
    /\ "key" \in DOMAIN n /\ "value" \in DOMAIN n
    /\ HasColon(n.value)
    /\ IsInt(SecondSegment(n.value))

HasListing(resp) ==
    resp.transport = "ok" /\ "node" \in DOMAIN resp.body /\ "nodes" \in DOMAIN resp.body.node

WellFormedService(resp) ==
    /\ HasListing(resp)
    /\ \A i \in 1..Len(resp.body.node.nodes) : WellFormedLeaf(resp.body.node.nodes[i])

ExpectedEntry(n) ==
    Dict([host |-> Str(HostOf(n.value)), port |-> Num(ToInt(SecondSegment(n.value)))])

\* C8: on a decoded response, get_service returns absent (None), and raises
\* nothing, as soon as the listing is missing or one child is malformed (no
\* colon, a non-integer second segment, no value); otherwise it returns
\* {alias: {replica id: {host, port}}} with exactly one entry per child, the
\* host the text before the first colon and the port the integer after it.
C8_AllOrNothing ==
    (svcOut # Pending /\ svcResp.transport = "ok") =>
        IF WellFormedService(svcResp)
        THEN /\ svcOut.tag = "return"
             /\ svcOut.val.t = "dict"
             /\ DOMAIN svcOut.val.v = {svcAlias}
             /\ svcOut.val.v[svcAlias].t = "dict"
             /\ LET m == svcOut.val.v[svcAlias].v
                    nodes == svcResp.body.node.nodes
                IN  /\ Cardinality(DOMAIN m) = Len(nodes)
                    /\ \A i \in 1..Len(nodes) :
                           /\ Last(nodes[i].key) \in DOMAIN m
                           /\ m[Last(nodes[i].key)] = ExpectedEntry(nodes[i])
        ELSE svcOut = Ret(None)

\* a listing with a well-formed child and a malformed sibling resolved to absent
C8_Witness ==
    /\ svcOut = Ret(None)
    /\ HasListing(svcResp)
    /\ \E i, j \in 1..Len(svcResp.body.node.nodes) :
           /\ WellFormedLeaf(svcResp.body.node.nodes[i])
           /\ ~WellFormedLeaf(svcResp.body.node.nodes[j])

-----------------------------------------------------------------------------
(* Properties of get_conf, under SpecConf. *)

IsNonEmptyDir(node) ==
    "dir" \in DOMAIN node /\ node.dir /\ "nodes" \in DOMAIN node /\ node.nodes # <<>>

\* the resolution in which an absent child contributes no key to its parent
RECURSIVE GracefulConf(_, _)
GracefulConf(node, key) ==
    IF IsNonEmptyDir(node)
    THEN Dict((key :> Dict(merge_dicts(Present(
             [i \in 1..Len(node.nodes) |-> GracefulConf(node.nodes[i], Last(node.nodes[i].key))])))))
    ELSE IF "value" \in DOMAIN node THEN Dict((key :> Str(node.value)))
    ELSE None

\* C7: a descendant that is an empty directory, or has neither value nor
\* children, contributes no key to its parent's mapping, and get_conf still
\* returns the mapping built from the other children.
C7_GracefulDegradation ==
    (confOut # Pending /\ confResp.transport = "ok" /\ "node" \in DOMAIN confResp.body) =>
        confOut = Ret(GracefulConf(confResp.body.node, confAlias))

-----------------------------------------------------------------------------
(* Properties of one info call, under SpecMerge. *)

Malformed(e) == ~(e.t = "str" \/ (e.t = "tuple" /\ Len(e.v) = 2))
NameOf(e) == IF e.t = "str" THEN e.v ELSE e.v[1].v
AliasOf(e) == IF e.t = "str" THEN e.v ELSE e.v[2].v

AnyMalformed ==
    \/ \E i \in 1..Len(call.sreqs) : Malformed(call.sreqs[i])
    \/ \E i \in 1..Len(call.creqs) : Malformed(call.creqs[i])

Returned == ncalls > 0 /\ outcome.tag = "return"
Bundle == outcome.val.v

\* what the i-th service (configuration) request resolves to in the store
SvcRes(i) == get_service(Fetch(store, "backends", NameOf(call.sreqs[i])), AliasOf(call.sreqs[i]))
ConfRes(i) == get_conf(Fetch(store, "project-conf", NameOf(call.creqs[i])), AliasOf(call.creqs[i]))
SvcPresent(i) == SvcRes(i).tag = "return" /\ SvcRes(i).val # None
ConfPresent(i) == ConfRes(i).tag = "return" /\ ConfRes(i).val # None
SvcAliasAt(i) == AliasOf(call.sreqs[i])
ConfAliasAt(i) == AliasOf(call.creqs[i])

\* a present configuration request under the alias "services" replaces the
\* services mapping of the bundle
ConfClobbers == \E i \in 1..Len(call.creqs) : ConfPresent(i) /\ ConfAliasAt(i) = "services"

\* the i-th request is the last present one under its alias
SvcLast(i) ==
    SvcPresent(i) /\ \A j \in (i + 1)..Len(call.sreqs) : SvcPresent(j) => SvcAliasAt(j) # SvcAliasAt(i)
ConfLast(i) ==
    ConfPresent(i) /\ \A j \in (i + 1)..Len(call.creqs) : ConfPresent(j) => ConfAliasAt(j) # ConfAliasAt(i)

ServicesLastWins ==
    \A i \in 1..Len(call.sreqs) : SvcLast(i) =>
        /\ "services" \in DOMAIN Bundle
        /\ Bundle["services"].t = "dict"
        /\ SvcAliasAt(i) \in DOMAIN Bundle["services"].v
        /\ Bundle["services"].v[SvcAliasAt(i)] = SvcRes(i).val.v[SvcAliasAt(i)]

ConfLastWins ==
    \A i \in 1..Len(call.creqs) : ConfLast(i) =>
        /\ ConfAliasAt(i) \in DOMAIN Bundle
        /\ Bundle[ConfAliasAt(i)] = ConfRes(i).val.v[ConfAliasAt(i)]

\* C3 as claimed: a malformed entry at any position of either list makes the
\* call fail with the construction error before any store call.
C3_FailFast ==
    (ncalls > 0 /\ AnyMalformed) => (outcome = Raise("ValueError") /\ nfetch = 0)

\* C4 as claimed: with well-formed request lists info returns a bundle,
\* whatever the store answers to each entry.
C4_NeverFails ==
    (ncalls > 0 /\ ~AnyMalformed) => outcome.tag = "return"

\* C5 as claimed: under every alias, services[alias] (respectively
\* bundle[alias]) is the resolution of the last present request of the list
\* with that alias.
C5_Original == Returned => (ServicesLastWins /\ ConfLastWins)

\* C5 as amended: the same, the services half provided that no present
\* configuration request carries the alias "services".
C5_LastWins == Returned => ((~ConfClobbers => ServicesLastWins) /\ ConfLastWins)

\* two present service requests and two present configuration requests that
\* share an alias and resolve differently
C5_Witness ==
    /\ Returned
    /\ ~ConfClobbers
    /\ \E i, j \in 1..Len(call.sreqs) :
           /\ i < j /\ SvcPresent(i) /\ SvcLast(j) /\ SvcAliasAt(i) = SvcAliasAt(j)
           /\ SvcRes(i).val.v[SvcAliasAt(i)] # SvcRes(j).val.v[SvcAliasAt(j)]
    /\ \E i, j \in 1..Len(call.creqs) :
           /\ i < j /\ ConfPresent(i) /\ ConfLast(j) /\ ConfAliasAt(i) = ConfAliasAt(j)
           /\ ConfRes(i).val.v[ConfAliasAt(i)] # ConfRes(j).val.v[ConfAliasAt(j)]

ServicesKeysExact ==
    /\ "services" \in DOMAIN Bundle
    /\ Bundle["services"].t = "dict"
    /\ DOMAIN Bundle["services"].v = {SvcAliasAt(i) : i \in {j \in 1..Len(call.sreqs) : SvcPresent(j)}}
    /\ \A a \in DOMAIN Bundle["services"].v :
           \E i \in 1..Len(call.sreqs) :
               SvcPresent(i) /\ SvcAliasAt(i) = a /\ Bundle["services"].v[a] = SvcRes(i).val.v[a]

\* C6 as claimed: the keys of services are exactly the aliases of the present
\* service requests, each with a present resolution under that alias.
C6_Original == Returned => ServicesKeysExact

\* C6 as amended: the same, provided that no present configuration request
\* carries the alias "services".
C6_DroppedAbsent == (Returned /\ ~ConfClobbers) => ServicesKeysExact

\* a present request followed by an absent one under the same alias
C6_Witness ==
    /\ Returned
    /\ ~ConfClobbers
    /\ \E i, j \in 1..Len(call.sreqs) :
           i < j /\ SvcPresent(i) /\ ~SvcPresent(j) /\ SvcAliasAt(i) = SvcAliasAt(j)

-----------------------------------------------------------------------------
(* Properties of the cache over a sequence of calls, under SpecCache. *)

Called == ncalls' = ncalls + 1
Given(key) == key # None

HitCase ==
    (Given(call'.key) /\ ~call'.force /\ call'.key.v \in DOMAIN _cached_result) =>
        (outcome' = Ret(_cached_result[call'.key.v]) /\ nfetch' = 0)

\* the step is the second of two successive calls with the same key and no
\* force_refresh, of which the first returned
Repeated ==
    /\ ncalls >= 1
    /\ call.key = call'.key
    /\ ~call.force /\ ~call'.force
    /\ outcome.tag = "return"

\* C1 as claimed: a call with a cacheKey, no force_refresh and an entry in the
\* cache returns that entry and makes no store call; two successive calls
\* with the same cacheKey and no force_refresh return the same result.
C1_Original ==
    [][Called => (HitCase /\ ((Repeated /\ Given(call'.key)) => (outcome' = outcome /\ nfetch' = 0)))]_vars

\* C1 as amended: the same for a non-empty cacheKey.
C1_CacheHit ==
    [][Called => (HitCase /\ ((Repeated /\ Truthy(call'.key)) => (outcome' = outcome /\ nfetch' = 0)))]_vars

\* a call served from the cache whose result is not what the store holds now
C1_Witness ==
    /\ ncalls >= 2
    /\ Truthy(call.key) /\ ~call.force
    /\ nfetch = 0
    /\ outcome.tag = "return"
    /\ outcome # InfoBody(store, call).out

WriteCase(key) ==
    (/\ (call'.force \/ key.v \notin DOMAIN _cached_result)
     /\ outcome'.tag = "return") =>
        /\ outcome' = InfoBody(store, call').out
        /\ key.v \in DOMAIN _cached_result'
        /\ _cached_result'[key.v] = outcome'.val

\* C2 as claimed: a call with a cacheKey and force_refresh, or with no entry
\* for the key, returns the bundle computed from the store and leaves it in
\* the cache under the key.
C2_Original == [][(Called /\ Given(call'.key)) => WriteCase(call'.key)]_vars

\* C2 as amended: the same for a non-empty cacheKey.
C2_CacheWrite == [][(Called /\ Truthy(call'.key)) => WriteCase(call'.key)]_vars

\* a forced call that fetched and left its bundle in the cache, after others
C2_Witness ==
    /\ ncalls >= 2
    /\ call.force /\ call.key = Str("k1")
    /\ outcome.tag = "return" /\ nfetch > 0
    /\ "k1" \in DOMAIN _cached_result /\ _cached_result["k1"] = outcome.val

\* C10: no key leaves the cache; an entry appears or changes only by a
\* returning call with that cacheKey, and an existing entry changes only
\* under force_refresh; a call without cacheKey, a call served from the
\* cache and a call that raises leave the whole cache as it was.
C10_CacheFrame ==
    [][/\ DOMAIN _cached_result \subseteq DOMAIN _cached_result'
       /\ \A k \in DOMAIN _cached_result' :
              (k \notin DOMAIN _cached_result \/ _cached_result'[k] # _cached_result[k]) =>
                  (Called /\ call'.key = Str(k) /\ outcome'.tag = "return")
       /\ \A k \in DOMAIN _cached_result : _cached_result'[k] # _cached_result[k] => call'.force
       /\ (Called /\ (\/ call'.key = None
                      \/ outcome'.tag = "raise"
                      \/ (~call'.force /\ call'.key.t = "str" /\ call'.key.v \in DOMAIN _cached_result)))
              => _cached_result' = _cached_result]_vars

\* a failed call under a cached key, the cache holding two different entries
C10_Witness ==
    /\ outcome.tag = "raise"
    /\ call.key = Str("k1")
    /\ DOMAIN _cached_result = {"k1", "k2"}
    /\ _cached_result["k1"] # _cached_result["k2"]

-----------------------------------------------------------------------------
(* Properties of concurrent calls on one cacheKey, under SpecConc. *)

\* thread p computed a bundle of its own (it was not served from the cache)
OwnBundle(p) == procs[p].result # None

\* p's bundle is the merge of the resolutions of all its requests
Complete(p) ==
    /\ Len(procs[p].svc) = Len(procs[p].c.sreqs)
    /\ Len(procs[p].conf) = Len(procs[p].c.creqs)
    /\ procs[p].result =
           Dict(merge_dicts(<<Dict(("services" :> Dict(merge_dicts(Present(procs[p].svc))))),
                              Dict(merge_dicts(Present(procs[p].conf)))>>))

Wrote(p) == procs[p].pc = "done" /\ OwnBundle(p)

CacheSound ==
    \A k \in DOMAIN _cached_result :
        \E p \in Procs :
            Wrote(p) /\ Complete(p) /\ procs[p].c.key = Str(k) /\ _cached_result[k] = procs[p].result

ReturnsSound ==
    \A p \in Procs :
        (procs[p].pc = "done" /\ procs[p].out.tag = "return") =>
            \/ OwnBundle(p) /\ Complete(p) /\ procs[p].out.val = procs[p].result
            \/ \E q \in Procs \ {p} :
                   /\ Wrote(q) /\ Complete(q) /\ procs[q].c.key = procs[p].c.key
                   /\ procs[p].out.val = procs[q].result

LastWriterWins ==
    \A p \in Procs :
        (procs[p].pc = "store" /\ procs'[p].pc = "done") =>
            /\ procs[p].c.key.v \in DOMAIN _cached_result'
            /\ _cached_result'[procs[p].c.key.v] = procs'[p].out.val

\* C9: under every interleaving, the cache entry of the key is, in every
\* state, the complete bundle of one of the calls that wrote it, and every
\* write leaves the writer's bundle there (last writer wins); a call that
\* returns returns a complete bundle, its own or the one another call had
\* stored.
C9_NoCorruption == [](CacheSound /\ ReturnsSound) /\ [][LastWriterWins]_vars

\* two calls that both missed the cache, computed different bundles and wrote
\* them one after the other: the entry is the bundle of one of them
C9_Witness ==
    \E p, q \in Procs :
        /\ p # q
        /\ Wrote(p) /\ Wrote(q)
        /\ procs[p].c.key = procs[q].c.key
        /\ procs[p].result # procs[q].result
        /\ _cached_result[procs[p].c.key.v] = procs[q].result

====
